---- MODULE Spec2Model ----
(***************************************************************************)
(* The job-distribution coordinator of starship                            *)
(* (src/src/starship/servers/server.py): the ledger `metadata`, the worker *)
(* registry `workers_seen`, the /next_video GET and POST handlers, the     *)
(* /status handler and the periodic sweeper _check_and_retry_downloads.    *)
(*                                                                         *)
(* Spec     runs every handler and every sweeper pass as one atomic step   *)
(*          (any sequence of polls, reports, status queries and passes).   *)
(* ConcSpec runs the handlers as threads of the Flask server (threaded by  *)
(*          default) next to the scheduler's thread, one read or write of  *)
(*          the shared dictionaries per step.                              *)
(* WorkerSpec   runs the worker scripts (workers/worker.py and              *)
(*          workers/worker_audio_only.py) as the clients of the server.    *)
(* LauncherSpec runs main() of app.py next to the server it starts.        *)
(* ZoneSpec runs the placement of the instances in zones (app.py).         *)
(* LiveSpec and StrandSpec add the fairness of the workers' polls and      *)
(*          reports, and of the sweeper and the clock.                     *)
(***************************************************************************)
EXTENDS Integers, Sequences, FiniteSets, TLC

\* ------------------------------------------------------------------ bounds
MaxJobs == 2            \* the input file holds 0..MaxJobs payloads
MaxTime == 1            \* the clock runs from 0 to MaxTime
MaxFlagRetries == 1     \* --retries is drawn from 0..MaxFlagRetries
MaxFlagTimeout == 0     \* --timeout is drawn from 0..MaxFlagTimeout
MaxFailureReports == 2  \* failure reports counted per job (HistSpec)
MaxNumWorkers == 4      \* --num_workers is drawn from 0..MaxNumWorkers (ZoneSpec)
MaxZones == 2           \* --zones holds 1..MaxZones zones (ZoneSpec)
MaxPerZone == 1         \* --max_workers_per_zone is drawn from 0..MaxPerZone (ZoneSpec)

\* ------------------------------------------------------------------ inputs
Workers == {"w1", "w2"}
Threads == Workers \cup {"sweeper", "status"}
WorkerStatuses == {"ok", "error"}
WorkerMessages == {"boom"}
ReportStatuses == {"ok", "skipped", "error"}

\* Python's None, and a value that is not None.
None == <<>>
Some(x) == <<x>>

\* The payload at position k of the input file.
Payload(k) == [url |-> k]

VARIABLES
    \* the server's state
    FLAGS,            \* the command-line flags: [timeout, retries]
    video_data,       \* job id -> payload
    metadata,         \* job id -> [status, error, retries, start_time, end_time, worker_id]
    workers_seen,     \* worker id -> [last_seen, status, notified_finished, message]
    now,              \* time.time()
    \* the threads: the handler serving each worker's poll (ConcSpec), the
    \* scheduler's thread (SweepSpec) and the handler of /status (StatusSpec)
    pc,               \* thread -> the line it is at, or "idle"
    local,            \* thread -> its local variables
    \* history (HistSpec, ConcSpec)
    handed,           \* job id -> workers answered with it since its last report or reclaim
    failure_reports,  \* job id -> number of accepted failure reports
    reclaims,         \* job id -> times the sweeper or a redirect returned it to waiting
    \* log (LogSpec)
    done_seen,        \* /status would have answered done: true in this or an earlier state
    last_report,      \* the reply to the most recent POST /next_video, None before the first
    snapshots,        \* the counts of every ledger state since the running /status request began
    unhealthy,        \* the workers that have polled or reported with a status other than ok
    examined,         \* the jobs the latest sweeper pass tested, None before the first pass
    \* the clients of the server (WorkerSpec, LauncherSpec)
    program,          \* the script the worker instances run
    worker,           \* worker id -> [pc, worker_status, worker_message, next_video_data] of its main()
    launcher,         \* [pc, hooks, registered, teardown, instances, idx, polled] of main() of app.py
    placement         \* the zones main() of app.py puts its instances in (ZoneSpec):
                      \* [pc, num_workers, zones, max_workers_per_zone, current_zone, worker_ops, idx]

server == <<FLAGS, video_data, metadata, workers_seen, now>>
threads == <<pc, local>>
history == <<handed, failure_reports, reclaims>>
log == <<done_seen, last_report, snapshots, unhealthy, examined>>
clients == <<program, worker, launcher, placement>>
vars == <<server, threads, history, log, clients>>

videos == DOMAIN video_data

Terminal == {"finished", "skipped", "failed"}
TimeoutMessage == "Timeout waiting on worker"

\* ------------------------------------------------------------------ main()
\* Mutant: the jobs start as downloading.
InitialRecord_downloading ==
    [status |-> "downloading", error |-> None, retries |-> 0,
     start_time |-> None, end_time |-> None, worker_id |-> None]

InitialRecord ==
    [status |-> "waiting", error |-> None, retries |-> 0,
     start_time |-> None, end_time |-> None, worker_id |-> None]

\* main() of worker.py and worker_audio_only.py before the first poll
\* (next_video_data None: no job in hand).
worker_main ==
    [pc |-> "L156", worker_status |-> "ok", worker_message |-> "", next_video_data |-> None]

\* main() of app.py at its first step: no exit hook (registered: atexit.register
\* was called), no teardown run, no instance of this run, no worker started, no
\* /status poll made.
app_main ==
    [pc |-> "L212", hooks |-> {}, registered |-> FALSE, teardown |-> {},
     instances |-> {}, idx |-> 0, polled |-> {}]

\* The placement of main() of app.py with the flags' defaults: one worker, one
\* zone (numbered 0), and a zone limit no run of the model reaches.
app_flags ==
    [pc |-> "L230", num_workers |-> 1, zones |-> 1, max_workers_per_zone |-> MaxNumWorkers + 1,
     current_zone |-> 0, worker_ops |-> [z \in {0} |-> <<>>], idx |-> 0]

NoLocals == [worker_status |-> "ok", worker_message |-> "", next_video_id |-> None]

\* main() of server.py up to flask_app.run, with no request served yet.
server_main ==
    /\ FLAGS \in [timeout : 0..MaxFlagTimeout, retries : 0..MaxFlagRetries]
    /\ \E n \in 0..MaxJobs : video_data = [k \in 0..(n - 1) |-> Payload(k)]
    /\ metadata = [k \in videos |-> InitialRecord]
    /\ workers_seen = [w \in {} |-> None]
    /\ now = 0
    /\ pc = [w \in Threads |-> "idle"]
    /\ local = [w \in Threads |-> NoLocals]
    /\ handed = [k \in videos |-> {}]
    /\ failure_reports = [k \in videos |-> 0]
    /\ reclaims = [k \in videos |-> 0]
    /\ done_seen = (videos = {})
    /\ last_report = None
    /\ snapshots = {}
    /\ unhealthy = {}
    /\ examined = None

\* The server with no client process running: the worker script is the one app.py
\* uploads (line 102).
Init ==
    /\ server_main
    /\ program = "worker.py"
    /\ worker = [w \in Workers |-> worker_main]
    /\ launcher = app_main
    /\ placement = app_flags

\* ------------------------------------------------------------------ sweeper
\* Mutant: the sweeper consults --retries like a failure report does.
Reclaimed_bounded(data) ==
    IF data.retries < FLAGS.retries
    THEN [data EXCEPT !.status = "waiting", !.retries = @ + 1, !.error = Some(TimeoutMessage)]
    ELSE [data EXCEPT !.status = "failed", !.error = Some(TimeoutMessage)]

\* Mutant: a timeout is not counted in retries.
Reclaimed_uncounted(data) ==
    [data EXCEPT !.status = "waiting", !.error = Some(TimeoutMessage)]

\* One job's record after the sweeper reclaimed it.
Reclaimed(data) ==
    [data EXCEPT !.status = "waiting", !.retries = @ + 1, !.error = Some(TimeoutMessage)]

\* The sweeper's test of one record at time t. A record with status downloading
\* and start_time None makes the subtraction raise TypeError.
Raises(data) == data.status = "downloading" /\ data.start_time = None

\* Mutant: no job is ever past its deadline.
Expired_never(data, t, timeout) == FALSE

\* Mutant: the comparison with --timeout is not strict.
Expired_at_timeout(data, t, timeout) ==
    /\ data.status = "downloading"
    /\ data.start_time # None
    /\ t - data.start_time[1] >= timeout

Expired(data, t, timeout) ==
    /\ data.status = "downloading"
    /\ data.start_time # None
    /\ t - data.start_time[1] > timeout

\* The pass over metadata.items() from job id k on, in insertion order (0, 1, ...);
\* an exception ends the pass where it is raised.
RECURSIVE _check_and_retry_downloads_from(_, _, _, _)
_check_and_retry_downloads_from(md, k, t, timeout) ==
    IF k \notin DOMAIN md THEN md
    ELSE IF Raises(md[k]) THEN md
    ELSE IF Expired(md[k], t, timeout)
         THEN _check_and_retry_downloads_from([md EXCEPT ![k] = Reclaimed(@)], k + 1, t, timeout)
         ELSE _check_and_retry_downloads_from(md, k + 1, t, timeout)

\* The jobs a pass at time t tests without raising, from job id k on.
RECURSIVE Tested(_, _)
Tested(md, k) ==
    IF k \notin DOMAIN md \/ Raises(md[k]) THEN {}
    ELSE {k} \cup Tested(md, k + 1)

\* The jobs a pass at time t reclaims.
Swept(md, t, timeout) ==
    {k \in DOMAIN md : _check_and_retry_downloads_from(md, 0, t, timeout)[k] # md[k]}

_check_and_retry_downloads ==
    /\ metadata' = _check_and_retry_downloads_from(metadata, 0, now, FLAGS.timeout)
    /\ UNCHANGED <<FLAGS, video_data, workers_seen, now>>

_check_and_retry_downloads_history ==
    LET hit == Swept(metadata, now, FLAGS.timeout)
    IN  /\ handed' = [k \in videos |-> IF k \in hit THEN {} ELSE handed[k]]
        /\ reclaims' = [k \in videos |-> IF k \in hit THEN reclaims[k] + 1 ELSE reclaims[k]]
        /\ UNCHANGED failure_reports

\* ------------------------------------------------------------------ GET /next_video
\* workers_seen[worker_id] = {...}: the entry is created or replaced.
Seen(ws, worker_id, worker_status, worker_message, t) ==
    [w \in DOMAIN ws \cup {worker_id} |->
        IF w = worker_id
        THEN [last_seen |-> t, status |-> worker_status,
              notified_finished |-> FALSE, message |-> worker_message]
        ELSE ws[w]]

\* The jobs an unhealthy poll of worker_id redirects.
HeldBy(md, worker_id) ==
    {k \in DOMAIN md : md[k].status = "downloading" /\ md[k].worker_id = Some(worker_id)}

Redirected(data, worker_message) ==
    [data EXCEPT !.status = "waiting", !.error = Some(worker_message), !.retries = @ + 1]

AnyWaiting(md) == \E k \in DOMAIN md : md[k].status = "waiting"
AnyDownloading(md) == \E k \in DOMAIN md : md[k].status = "downloading"

\* next(k for k, v in metadata.items() if v["status"] == "waiting")
NextWaiting(md) ==
    CHOOSE k \in DOMAIN md :
        /\ md[k].status = "waiting"
        /\ \A i \in DOMAIN md : md[i].status = "waiting" => k <= i

\* Mutant: a job handed out starts over with retries 0.
Assigned_resets_retries(data, t) ==
    [data EXCEPT !.status = "downloading", !.error = None,
                 !.start_time = Some(t), !.end_time = None, !.retries = 0]

\* One job's record after it was handed out at time t.
Assigned(data, t) ==
    [data EXCEPT !.status = "downloading", !.error = None,
                 !.start_time = Some(t), !.end_time = None]

JobReply(k) == [_id |-> k, payload |-> video_data[k]]
FinishedReply == [finished |-> TRUE]
PendingReply == [pending_finish |-> TRUE]

\* Mutant: pending_finish is never sent.
next_video_GET_reply_no_pending(md, worker_status) ==
    IF worker_status # "ok" THEN FinishedReply
    ELSE IF ~AnyWaiting(md) THEN FinishedReply
    ELSE JobReply(NextWaiting(md))

\* What the handler returns for a poll that finds the ledger md.
next_video_GET_reply(md, worker_status) ==
    IF worker_status # "ok" THEN FinishedReply
    ELSE IF ~AnyWaiting(md)
         THEN IF AnyDownloading(md) THEN PendingReply ELSE FinishedReply
         ELSE JobReply(NextWaiting(md))

\* Mutant: the return of line 49 is missing, an unhealthy poll goes on to line 51.
next_video_GET_ledger_falls_through(md, worker_id, worker_status, worker_message, t) ==
    LET r == IF worker_status # "ok"
             THEN [k \in DOMAIN md |->
                     IF k \in HeldBy(md, worker_id)
                     THEN Redirected(md[k], worker_message) ELSE md[k]]
             ELSE md
    IN  IF ~AnyWaiting(r) THEN r
        ELSE [r EXCEPT ![NextWaiting(r)] = Assigned(@, t)]

\* Mutant: a worker whose registry entry is not ok gets no job.
next_video_GET_ledger_gated(md, worker_id, worker_status, worker_message, t) ==
    IF worker_status # "ok"
    THEN [k \in DOMAIN md |->
            IF k \in HeldBy(md, worker_id) THEN Redirected(md[k], worker_message) ELSE md[k]]
    ELSE IF ~AnyWaiting(md) THEN md
    ELSE IF worker_id \in DOMAIN workers_seen /\ workers_seen[worker_id].status # "ok" THEN md
    ELSE [md EXCEPT ![NextWaiting(md)] = Assigned(@, t)]

\* The ledger after a poll that finds the ledger md at time t.
next_video_GET_ledger(md, worker_id, worker_status, worker_message, t) ==
    IF worker_status # "ok"
    THEN [k \in DOMAIN md |->
            IF k \in HeldBy(md, worker_id) THEN Redirected(md[k], worker_message) ELSE md[k]]
    ELSE IF ~AnyWaiting(md) THEN md
    ELSE [md EXCEPT ![NextWaiting(md)] = Assigned(@, t)]

next_video_GET(worker_id, worker_status, worker_message) ==
    /\ workers_seen' = Seen(workers_seen, worker_id, worker_status, worker_message, now)
    /\ metadata' = next_video_GET_ledger(metadata, worker_id, worker_status, worker_message, now)
    /\ UNCHANGED <<FLAGS, video_data, now>>

next_video_GET_history(worker_id, worker_status) ==
    LET held == IF worker_status # "ok" THEN HeldBy(metadata, worker_id) ELSE {}
        r == next_video_GET_reply(metadata, worker_status)
    IN  /\ handed' = [k \in videos |->
               IF k \in held THEN {}
               ELSE IF "_id" \in DOMAIN r /\ r._id = k THEN handed[k] \cup {worker_id}
               ELSE handed[k]]
        /\ reclaims' = [k \in videos |-> IF k \in held THEN reclaims[k] + 1 ELSE reclaims[k]]
        /\ UNCHANGED failure_reports

\* ------------------------------------------------------------------ POST /next_video
\* A request body is None (no JSON) or Some(d), d a JSON object.
Required == {"video_id", "status", "worker_id"}
WorkerFields ==
    {[x \in {} |-> x],
     [worker_status |-> "error", worker_message |-> "boom"]}

Merge(f, g) == [x \in DOMAIN f \cup DOMAIN g |-> IF x \in DOMAIN f THEN f[x] ELSE g[x]]
Without(f, x) == [y \in DOMAIN f \ {x} |-> f[y]]

FullBodies ==
    {Merge([video_id |-> k, status |-> s, worker_id |-> w], o) :
        k \in 0..(MaxJobs - 1), s \in ReportStatuses, w \in Workers, o \in WorkerFields}
    \cup {[video_id |-> MaxJobs, status |-> s, worker_id |-> "w1"] : s \in ReportStatuses}
PartialBodies ==
    {Without([video_id |-> 0, status |-> "ok", worker_id |-> "w1"], x) : x \in Required}
Bodies == {None} \cup {Some(d) : d \in FullBodies \cup PartialBodies}

ErrorReply(msg) == [error |-> msg]
OkReply == [status |-> "ok"]
ServerError == [http |-> 500]

\* Mutant: the check of worker_id is missing.
Malformed_worker_id_unchecked(data) ==
    IF data = None THEN Some("No data provided")
    ELSE IF "video_id" \notin DOMAIN data[1] THEN Some("No video_id provided")
    ELSE IF "status" \notin DOMAIN data[1] THEN Some("No status provided")
    ELSE None

\* The reply of the validation at the head of the handler, None when it passes.
Malformed(data) ==
    IF data = None THEN Some("No data provided")
    ELSE IF "video_id" \notin DOMAIN data[1] THEN Some("No video_id provided")
    ELSE IF "status" \notin DOMAIN data[1] THEN Some("No status provided")
    ELSE IF "worker_id" \notin DOMAIN data[1] THEN Some("No worker_id provided")
    ELSE None

\* Mutant: ok and skipped both end in finished.
Completed_always_finished(data, status, t) ==
    [data EXCEPT !.status = "finished", !.end_time = Some(t), !.error = None]

\* One job's record after a report with status ok or skipped.
Completed(data, status, t) ==
    [data EXCEPT !.status = IF status = "ok" THEN "finished" ELSE "skipped",
                 !.end_time = Some(t), !.error = None]

\* Mutant: retries <= max_retries, one more retry than the flag allows.
Retried_one_more(data, status, t, max_retries) ==
    IF data.retries <= max_retries
    THEN [data EXCEPT !.end_time = Some(t), !.error = Some(status),
                      !.status = "waiting", !.retries = @ + 1]
    ELSE [data EXCEPT !.end_time = Some(t), !.error = Some(status), !.status = "failed"]

\* Mutant: a failure report never ends the job.
Retried_forever(data, status, t, max_retries) ==
    [data EXCEPT !.end_time = Some(t), !.error = Some(status),
                 !.status = "waiting", !.retries = @ + 1]

\* Mutant: a job out of retries goes back to waiting all the same.
Retried_never_failed(data, status, t, max_retries) ==
    IF data.retries < max_retries
    THEN [data EXCEPT !.end_time = Some(t), !.error = Some(status),
                      !.status = "waiting", !.retries = @ + 1]
    ELSE [data EXCEPT !.end_time = Some(t), !.error = Some(status), !.status = "waiting"]

\* One job's record after a report with any other status.
Retried(data, status, t, max_retries) ==
    IF data.retries < max_retries
    THEN [data EXCEPT !.end_time = Some(t), !.error = Some(status),
                      !.status = "waiting", !.retries = @ + 1]
    ELSE [data EXCEPT !.end_time = Some(t), !.error = Some(status), !.status = "failed"]

Reported(data, status, t, max_retries) ==
    IF status \in {"ok", "skipped"}
    THEN Completed(data, status, t)
    ELSE Retried(data, status, t, max_retries)

\* Mutant: a report creates the entry of a worker that never polled.
Updated_or_created(ws, d, t) ==
    [w \in DOMAIN ws \cup {d.worker_id} |->
        IF w # d.worker_id THEN ws[w]
        ELSE [last_seen |-> t,
              status |-> IF "worker_status" \in DOMAIN d THEN d.worker_status
                         ELSE IF w \in DOMAIN ws THEN ws[w].status ELSE "ok",
              notified_finished |-> FALSE,
              message |-> IF "worker_message" \in DOMAIN d THEN d.worker_message
                          ELSE IF w \in DOMAIN ws THEN ws[w].message ELSE ""]]

\* "Update the last workers": only an entry that exists is updated
\* (data["worker_id"] raises KeyError on a body without the field, before any write).
Updated(ws, d, t) ==
    IF "worker_id" \notin DOMAIN d \/ d.worker_id \notin DOMAIN ws THEN ws
    ELSE [ws EXCEPT ![d.worker_id] =
            [@ EXCEPT !.last_seen = t,
                      !.status = IF "worker_status" \in DOMAIN d THEN d.worker_status ELSE @,
                      !.message = IF "worker_message" \in DOMAIN d THEN d.worker_message ELSE @]]

IsFailure(status) == status \notin {"ok", "skipped"}

\* The report is accepted: it passes the validation and names a job of the ledger
\* (metadata[video_id] raises KeyError otherwise, before any write).
Accepted(md, data) == Malformed(data) = None /\ data[1].video_id \in DOMAIN md

\* What the handler returns for a report that finds the ledger md.
next_video_POST_reply(md, data) ==
    IF Malformed(data) # None THEN ErrorReply(Malformed(data)[1])
    ELSE IF data[1].video_id \notin DOMAIN md THEN ServerError
    ELSE OkReply

\* Mutant: an accepted report clears the error of every job.
next_video_POST_ledger_clears_errors(md, data, t, max_retries) ==
    IF ~Accepted(md, data) THEN md
    ELSE [k \in DOMAIN md |->
            IF k = data[1].video_id THEN Reported(md[k], data[1].status, t, max_retries)
            ELSE [md[k] EXCEPT !.error = None]]

\* The ledger after a report that finds the ledger md at time t.
next_video_POST_ledger(md, data, t, max_retries) ==
    IF ~Accepted(md, data) THEN md
    ELSE [md EXCEPT ![data[1].video_id] = Reported(@, data[1].status, t, max_retries)]

next_video_POST(data) ==
    /\ metadata' = next_video_POST_ledger(metadata, data, now, FLAGS.retries)
    /\ workers_seen' = IF Accepted(metadata, data)
                       THEN Updated(workers_seen, data[1], now)
                       ELSE workers_seen
    /\ UNCHANGED <<FLAGS, video_data, now>>

next_video_POST_history(data) ==
    LET failure == Accepted(metadata, data) /\ IsFailure(data[1].status)
    IN  /\ failure => failure_reports[data[1].video_id] < MaxFailureReports
        /\ handed' = [k \in videos |->
               IF Accepted(metadata, data) /\ data[1].video_id = k THEN {} ELSE handed[k]]
        /\ failure_reports' = [k \in videos |->
               IF failure /\ data[1].video_id = k
               THEN failure_reports[k] + 1 ELSE failure_reports[k]]
        /\ UNCHANGED reclaims

\* ------------------------------------------------------------------ GET /status
\* The jobs whose status is one of S.
InStatus(md, S) == {k \in DOMAIN md : md[k].status \in S}

\* Mutant: the finished field counts the jobs whose status is finished only.
status_finished_only(md, ws) ==
    [total |-> Cardinality(videos),
     finished |-> Cardinality(InStatus(md, {"finished"})),
     failed |-> Cardinality(InStatus(md, {"failed"})),
     waiting |-> Cardinality(InStatus(md, {"waiting"})),
     downloading |-> Cardinality(InStatus(md, {"downloading"})),
     skipped |-> Cardinality(InStatus(md, {"skipped"})),
     retrying |-> Cardinality({k \in InStatus(md, {"waiting"}) : md[k].retries > 0}),
     workers |-> ws,
     done |-> \A k \in DOMAIN md : md[k].status \notin {"waiting", "downloading"}]

\* Mutant: done looks at waiting jobs only.
status_done_when_none_waiting(md, ws) ==
    [total |-> Cardinality(videos),
     finished |-> Cardinality(InStatus(md, {"finished", "skipped", "failed"})),
     failed |-> Cardinality(InStatus(md, {"failed"})),
     waiting |-> Cardinality(InStatus(md, {"waiting"})),
     downloading |-> Cardinality(InStatus(md, {"downloading"})),
     skipped |-> Cardinality(InStatus(md, {"skipped"})),
     retrying |-> Cardinality({k \in InStatus(md, {"waiting"}) : md[k].retries > 0}),
     workers |-> ws,
     done |-> \A k \in DOMAIN md : md[k].status # "waiting"]

\* Mutant: the finished field leaves the failed jobs out.
status_failed_apart(md, ws) ==
    [total |-> Cardinality(videos),
     finished |-> Cardinality(InStatus(md, {"finished", "skipped"})),
     failed |-> Cardinality(InStatus(md, {"failed"})),
     waiting |-> Cardinality(InStatus(md, {"waiting"})),
     downloading |-> Cardinality(InStatus(md, {"downloading"})),
     skipped |-> Cardinality(InStatus(md, {"skipped"})),
     retrying |-> Cardinality({k \in InStatus(md, {"waiting"}) : md[k].retries > 0}),
     workers |-> ws,
     done |-> \A k \in DOMAIN md : md[k].status \notin {"waiting", "downloading"}]

status(md, ws) ==
    [total |-> Cardinality(videos),
     finished |-> Cardinality(InStatus(md, {"finished", "skipped", "failed"})),
     failed |-> Cardinality(InStatus(md, {"failed"})),
     waiting |-> Cardinality(InStatus(md, {"waiting"})),
     downloading |-> Cardinality(InStatus(md, {"downloading"})),
     skipped |-> Cardinality(InStatus(md, {"skipped"})),
     retrying |-> Cardinality({k \in InStatus(md, {"waiting"}) : md[k].retries > 0}),
     workers |-> ws,
     done |-> \A k \in DOMAIN md : md[k].status \notin {"waiting", "downloading"}]

\* The handler reads the ledger and writes nothing.
status_GET == UNCHANGED server

\* ------------------------------------------------------------------ clock
Tick ==
    /\ now < MaxTime
    /\ now' = now + 1
    /\ UNCHANGED <<FLAGS, video_data, metadata, workers_seen>>

\* ------------------------------------------------------------------ Spec
\* Any sequence of polls, reports, status queries, sweeper passes and clock ticks.
Poll == \E w \in Workers, s \in WorkerStatuses, m \in WorkerMessages : next_video_GET(w, s, m)
Report == \E data \in Bodies : next_video_POST(data)

Next ==
    \/ Poll /\ UNCHANGED <<threads, history, log, clients>>
    \/ Report /\ UNCHANGED <<threads, history, log, clients>>
    \/ status_GET /\ UNCHANGED <<threads, history, log, clients>>
    \/ _check_and_retry_downloads /\ UNCHANGED <<threads, history, log, clients>>
    \/ Tick /\ UNCHANGED <<threads, history, log, clients>>

Spec == Init /\ [][Next]_vars

\* ------------------------------------------------------------------ HistSpec
\* The same sequences, with the history of answers, failure reports and reclaims.
HistPoll ==
    \E w \in Workers, s \in WorkerStatuses, m \in WorkerMessages :
        next_video_GET(w, s, m) /\ next_video_GET_history(w, s)
HistReport == \E data \in Bodies : next_video_POST(data) /\ next_video_POST_history(data)

HistNext ==
    \/ HistPoll /\ UNCHANGED <<threads, log, clients>>
    \/ HistReport /\ UNCHANGED <<threads, log, clients>>
    \/ status_GET /\ UNCHANGED <<threads, history, log, clients>>
    \/ _check_and_retry_downloads /\ _check_and_retry_downloads_history /\ UNCHANGED <<threads, log, clients>>
    \/ Tick /\ UNCHANGED <<threads, history, log, clients>>

HistSpec == Init /\ [][HistNext]_vars

\* ------------------------------------------------------------------ LiveSpec
\* Polls, outcome reports, sweeper passes and clock ticks with --retries at its
\* largest, under the conditions of a run whose workers do their part: worker w1
\* keeps polling with status ok, and a job that was handed out and neither
\* reported nor reclaimed since gets an outcome report (ok, skipped or a failure
\* status) from some worker. The number of failure reports is not bounded.
HealthyPoll ==
    /\ \E m \in WorkerMessages : next_video_GET("w1", "ok", m) /\ next_video_GET_history("w1", "ok")
    /\ UNCHANGED <<threads, log, clients>>

OutcomeBodies(k) ==
    {Some([video_id |-> k, status |-> s, worker_id |-> w]) : s \in ReportStatuses, w \in Workers}

\* An outcome report of job k; the job is no longer handed out.
Outcome(k) ==
    /\ \E data \in OutcomeBodies(k) : next_video_POST(data)
    /\ handed' = [handed EXCEPT ![k] = {}]
    /\ UNCHANGED <<failure_reports, reclaims, threads, log, clients>>

ReportOf(k) == k \in videos /\ handed[k] # {} /\ Outcome(k)

LiveNext ==
    \/ HistPoll /\ UNCHANGED <<threads, log, clients>>
    \/ \E k \in videos : Outcome(k)
    \/ _check_and_retry_downloads /\ _check_and_retry_downloads_history /\ UNCHANGED <<threads, log, clients>>
    \/ Tick /\ UNCHANGED <<threads, history, log, clients>>

LiveInit == Init /\ FLAGS.retries = MaxFlagRetries

LiveSpec ==
    /\ LiveInit
    /\ [][LiveNext]_vars
    /\ WF_vars(HealthyPoll)
    /\ \A k \in 0..(MaxJobs - 1) : WF_vars(ReportOf(k))

\* ------------------------------------------------------------------ LogSpec
\* The same sequences, with the reply to the latest report and the workers that
\* were ever unhealthy.
LogPoll ==
    \E w \in Workers, s \in WorkerStatuses, m \in WorkerMessages :
        /\ next_video_GET(w, s, m)
        /\ unhealthy' = IF s # "ok" THEN unhealthy \cup {w} ELSE unhealthy
        /\ UNCHANGED <<done_seen, last_report, snapshots, examined, clients>>

LogReport ==
    \E data \in Bodies :
        /\ next_video_POST(data)
        /\ last_report' = Some(next_video_POST_reply(metadata, data))
        /\ unhealthy' = IF /\ Accepted(metadata, data)
                           /\ "worker_status" \in DOMAIN data[1]
                           /\ data[1].worker_status # "ok"
                        THEN unhealthy \cup {data[1].worker_id} ELSE unhealthy
        /\ UNCHANGED <<done_seen, snapshots, examined, clients>>

LogNext ==
    \/ LogPoll /\ UNCHANGED <<threads, history>>
    \/ LogReport /\ UNCHANGED <<threads, history>>
    \/ status_GET /\ UNCHANGED <<threads, history, log, clients>>
    \/ _check_and_retry_downloads /\ UNCHANGED <<threads, history, log, clients>>
    \/ Tick /\ UNCHANGED <<threads, history, log, clients>>

\* At most one job, so that reports also name job ids beyond the ledger.
LogInit == Init /\ Cardinality(videos) <= 1

LogSpec == LogInit /\ [][LogNext]_vars

\* ------------------------------------------------------------------ DoneSpec
\* The same sequences, remembering whether the ledger was ever done.
Done(md) == status(md, workers_seen).done
Seen_done == done_seen' = (done_seen \/ Done(metadata')) /\ UNCHANGED <<last_report, snapshots, unhealthy, examined, clients>>

DoneNext ==
    \/ Poll /\ Seen_done /\ UNCHANGED <<threads, history>>
    \/ Report /\ Seen_done /\ UNCHANGED <<threads, history>>
    \/ status_GET /\ UNCHANGED <<threads, history, log, clients>>
    \/ _check_and_retry_downloads /\ Seen_done /\ UNCHANGED <<threads, history>>
    \/ Tick /\ UNCHANGED <<threads, history, log, clients>>

DoneSpec == Init /\ [][DoneNext]_vars

\* ------------------------------------------------------------------ ConcSpec
\* The GET handler as a thread of the server: one step per line that reads or
\* writes the shared dictionaries. Other handlers and the sweeper run between
\* any two steps.
At(w, line) == pc[w] = line
Goto(w, line) == pc' = [pc EXCEPT ![w] = line]
Job(w) == local[w].next_video_id[1]

\* lines 32-38: the registry entry is written.
get_L33(w, worker_status, worker_message) ==
    /\ At(w, "idle")
    /\ workers_seen' = Seen(workers_seen, w, worker_status, worker_message, now)
    /\ local' = [local EXCEPT ![w] = [worker_status |-> worker_status,
                                      worker_message |-> worker_message,
                                      next_video_id |-> None]]
    /\ Goto(w, "L40")
    /\ UNCHANGED <<FLAGS, video_data, metadata, now, history, log, clients>>

\* lines 40-49: an unhealthy worker's jobs are redirected and the poll is answered finished.
get_L40(w) ==
    /\ At(w, "L40")
    /\ IF local[w].worker_status # "ok"
       THEN LET held == HeldBy(metadata, w)
            IN  /\ metadata' = [k \in videos |->
                       IF k \in held THEN Redirected(metadata[k], local[w].worker_message)
                       ELSE metadata[k]]
                /\ handed' = [k \in videos |-> IF k \in held THEN {} ELSE handed[k]]
                /\ Goto(w, "idle")
       ELSE /\ Goto(w, "L51")
            /\ UNCHANGED <<metadata, handed>>
    /\ UNCHANGED <<FLAGS, video_data, workers_seen, now, local, failure_reports, reclaims, log, clients>>

\* line 51: the scan for a waiting job.
get_L51(w) ==
    /\ At(w, "L51")
    /\ Goto(w, IF AnyWaiting(metadata) THEN "L57" ELSE "L52")
    /\ UNCHANGED <<server, local, history, log, clients>>

\* lines 52-54: pending_finish or finished is returned.
get_L52(w) ==
    /\ At(w, "L52")
    /\ Goto(w, "idle")
    /\ UNCHANGED <<server, local, history, log, clients>>

\* line 57: the second scan; next() raises StopIteration when no job is waiting any more.
get_L57(w) ==
    /\ At(w, "L57")
    /\ IF AnyWaiting(metadata)
       THEN /\ local' = [local EXCEPT ![w].next_video_id = Some(NextWaiting(metadata))]
            /\ Goto(w, "L58")
       ELSE /\ Goto(w, "idle")
            /\ UNCHANGED local
    /\ UNCHANGED <<server, history, log, clients>>

get_L58(w) ==
    /\ At(w, "L58")
    /\ metadata' = [metadata EXCEPT ![Job(w)].status = "downloading"]
    /\ Goto(w, "L59")
    /\ UNCHANGED <<FLAGS, video_data, workers_seen, now, local, history, log, clients>>

get_L59(w) ==
    /\ At(w, "L59")
    /\ metadata' = [metadata EXCEPT ![Job(w)].error = None]
    /\ Goto(w, "L60")
    /\ UNCHANGED <<FLAGS, video_data, workers_seen, now, local, history, log, clients>>

get_L60(w) ==
    /\ At(w, "L60")
    /\ metadata' = [metadata EXCEPT ![Job(w)].start_time = Some(now)]
    /\ Goto(w, "L61")
    /\ UNCHANGED <<FLAGS, video_data, workers_seen, now, local, history, log, clients>>

get_L61(w) ==
    /\ At(w, "L61")
    /\ metadata' = [metadata EXCEPT ![Job(w)].end_time = None]
    /\ Goto(w, "L67")
    /\ UNCHANGED <<FLAGS, video_data, workers_seen, now, local, history, log, clients>>

\* lines 63-67: the job is returned to the worker.
get_L67(w) ==
    /\ At(w, "L67")
    /\ handed' = [handed EXCEPT ![Job(w)] = @ \cup {w}]
    /\ Goto(w, "idle")
    /\ UNCHANGED <<server, local, failure_reports, reclaims, log, clients>>

ConcPoll ==
    \E w \in Workers :
        \/ \E s \in WorkerStatuses, m \in WorkerMessages : get_L33(w, s, m)
        \/ get_L40(w)
        \/ get_L51(w)
        \/ get_L52(w)
        \/ get_L57(w)
        \/ get_L58(w)
        \/ get_L59(w)
        \/ get_L60(w)
        \/ get_L61(w)
        \/ get_L67(w)

\* The reports of ConcSpec: well-formed, naming a job of the ledger.
ConcBodies ==
    {Some([video_id |-> k, status |-> s, worker_id |-> w]) :
        k \in videos, s \in ReportStatuses, w \in Workers}

ConcReport ==
    \E data \in ConcBodies :
        /\ next_video_POST(data)
        /\ handed' = [handed EXCEPT ![data[1].video_id] = {}]
        /\ UNCHANGED <<threads, failure_reports, reclaims, log, clients>>

ConcSweep ==
    /\ _check_and_retry_downloads
    /\ handed' = [k \in videos |->
           IF k \in Swept(metadata, now, FLAGS.timeout) THEN {} ELSE handed[k]]
    /\ UNCHANGED <<threads, failure_reports, reclaims, log, clients>>

ConcNext ==
    \/ ConcPoll
    \/ ConcReport
    \/ ConcSweep
    \/ Tick /\ UNCHANGED <<threads, history, log, clients>>

\* One job, polled for by both workers.
ConcInit == Init /\ FLAGS.retries = MaxFlagRetries /\ Cardinality(videos) = 1

ConcSpec == ConcInit /\ [][ConcNext]_vars

\* ------------------------------------------------------------------ PassSpec
\* ConcSpec for a full job list and without reports: the polls of both workers,
\* line by line, next to the sweeper's passes, with the jobs each pass tested.
PassSweep ==
    /\ _check_and_retry_downloads
    /\ handed' = [k \in videos |->
           IF k \in Swept(metadata, now, FLAGS.timeout) THEN {} ELSE handed[k]]
    /\ examined' = Some(Tested(metadata, 0))
    /\ UNCHANGED <<threads, failure_reports, reclaims, done_seen, last_report, snapshots, unhealthy, clients>>

PassNext ==
    \/ ConcPoll
    \/ PassSweep
    \/ Tick /\ UNCHANGED <<threads, history, log, clients>>

PassInit == Init /\ FLAGS.retries = MaxFlagRetries /\ Cardinality(videos) = MaxJobs

PassSpec == PassInit /\ [][PassNext]_vars

\* ------------------------------------------------------------------ SweepSpec
\* The sweeper as the scheduler's thread: the test of line 20 and the writes of
\* lines 21, 22 and 23 are steps of their own. Polls and reports run as in Spec
\* between any two of them.
SweepJob == local["sweeper"].video_id

\* line 19: the pass begins with the first item of metadata.
sweep_L19 ==
    /\ At("sweeper", "idle")
    /\ local' = [local EXCEPT !["sweeper"] = [video_id |-> 0]]
    /\ Goto("sweeper", "L20")
    /\ UNCHANGED <<server, history, log, clients>>

\* line 20: the test of one item; the pass ends after the last item, and where
\* the subtraction raises.
sweep_L20 ==
    /\ At("sweeper", "L20")
    /\ IF SweepJob \notin videos \/ Raises(metadata[SweepJob])
       THEN /\ Goto("sweeper", "idle")
            /\ local' = [local EXCEPT !["sweeper"] = NoLocals]
       ELSE IF Expired(metadata[SweepJob], now, FLAGS.timeout)
            THEN /\ Goto("sweeper", "L21")
                 /\ UNCHANGED local
            ELSE /\ local' = [local EXCEPT !["sweeper"].video_id = @ + 1]
                 /\ UNCHANGED pc
    /\ UNCHANGED <<server, history, log, clients>>

sweep_L21 ==
    /\ At("sweeper", "L21")
    /\ metadata' = [metadata EXCEPT ![SweepJob].status = "waiting"]
    /\ Goto("sweeper", "L22")
    /\ UNCHANGED <<FLAGS, video_data, workers_seen, now, local, history, log, clients>>

sweep_L22 ==
    /\ At("sweeper", "L22")
    /\ metadata' = [metadata EXCEPT ![SweepJob].retries = @ + 1]
    /\ Goto("sweeper", "L23")
    /\ UNCHANGED <<FLAGS, video_data, workers_seen, now, local, history, log, clients>>

sweep_L23 ==
    /\ At("sweeper", "L23")
    /\ metadata' = [metadata EXCEPT ![SweepJob].error = Some(TimeoutMessage)]
    /\ local' = [local EXCEPT !["sweeper"].video_id = @ + 1]
    /\ Goto("sweeper", "L20")
    /\ UNCHANGED <<FLAGS, video_data, workers_seen, now, history, log, clients>>

Sweeper == sweep_L19 \/ sweep_L20 \/ sweep_L21 \/ sweep_L22 \/ sweep_L23

SweepNext ==
    \/ Sweeper
    \/ Poll /\ UNCHANGED <<threads, history, log, clients>>
    \/ (\E data \in ConcBodies : next_video_POST(data)) /\ UNCHANGED <<threads, history, log, clients>>
    \/ Tick /\ UNCHANGED <<threads, history, log, clients>>

\* One job.
SweepInit == Init /\ Cardinality(videos) = 1

SweepSpec == SweepInit /\ [][SweepNext]_vars

\* ------------------------------------------------------------------ StatusSpec
\* The handler of /status as a request thread: the dictionary it returns is
\* built entry by entry, each count by a scan of its own (lines 116-124). Polls,
\* reports and sweeper passes run as in Spec between any two scans.
CountFields == {"finished", "failed", "waiting", "downloading", "skipped", "retrying", "done"}

\* The counts and the done flag of the ledger md.
Counts(md) == [f \in CountFields |-> status(md, workers_seen)[f]]

\* The entry each line computes and the line that follows it. The entry of line
\* 123 is a reference to workers_seen, read when the response is serialized.
ScanField ==
    [L116 |-> "total", L117 |-> "finished", L118 |-> "failed", L119 |-> "waiting",
     L120 |-> "downloading", L121 |-> "skipped", L122 |-> "retrying", L124 |-> "done"]
ScanNext ==
    [L116 |-> "L117", L117 |-> "L118", L118 |-> "L119", L119 |-> "L120",
     L120 |-> "L121", L121 |-> "L122", L122 |-> "L124", L124 |-> "L125"]

\* line 114: the request begins.
status_L114 ==
    /\ At("status", "idle")
    /\ local' = [local EXCEPT !["status"] = [x \in {} |-> x]]
    /\ Goto("status", "L116")
    /\ snapshots' = {Counts(metadata)}
    /\ UNCHANGED <<server, history, done_seen, last_report, unhealthy, examined, clients>>

\* lines 116-124: one entry of the response is computed from the ledger as it is now.
status_scan ==
    /\ pc["status"] \in DOMAIN ScanField
    /\ LET f == ScanField[pc["status"]]
       IN  local' = [local EXCEPT !["status"] =
                        Merge([x \in {f} |-> status(metadata, workers_seen)[f]], @)]
    /\ Goto("status", ScanNext[pc["status"]])
    /\ UNCHANGED <<server, history, log, clients>>

\* line 125: the response is returned.
status_L125 ==
    /\ At("status", "L125")
    /\ local' = [local EXCEPT !["status"] = NoLocals]
    /\ Goto("status", "idle")
    /\ snapshots' = {}
    /\ UNCHANGED <<server, history, done_seen, last_report, unhealthy, examined, clients>>

\* The ledger states that exist while a /status request runs.
Snap ==
    /\ snapshots' = IF At("status", "idle") THEN snapshots
                    ELSE snapshots \cup {Counts(metadata')}
    /\ UNCHANGED <<done_seen, last_report, unhealthy, examined, clients>>

\* The polls and reports of StatusSpec come from one worker.
StatusPoll ==
    \E s \in WorkerStatuses, m \in WorkerMessages : next_video_GET("w1", s, m)
StatusReport ==
    \E k \in videos, s \in ReportStatuses :
        next_video_POST(Some([video_id |-> k, status |-> s, worker_id |-> "w1"]))

StatusNext ==
    \/ status_L114
    \/ status_scan
    \/ status_L125
    \/ StatusPoll /\ Snap /\ UNCHANGED <<threads, history>>
    \/ StatusReport /\ Snap /\ UNCHANGED <<threads, history>>
    \/ _check_and_retry_downloads /\ Snap /\ UNCHANGED <<threads, history>>
    \/ Tick /\ UNCHANGED <<threads, history, log, clients>>

\* One job, --retries at its largest.
StatusInit == Init /\ FLAGS.retries = MaxFlagRetries /\ Cardinality(videos) = 1

StatusSpec == StatusInit /\ [][StatusNext]_vars

\* ------------------------------------------------------------------ worker.py, worker_audio_only.py
\* The worker scripts: main() polls /next_video, downloads the job it is given
\* and reports it, until the server tells it to stop. Lines are those of
\* worker.py; worker_audio_only.py has the same loop at lines 274-319.
Programs == {"worker.py", "worker_audio_only.py"}

\* How a call of requests.get(...) with .json() ends: a JSON reply of the server,
\* a connection error, a body that is not JSON, any other exception.
PollResults == {"reply", "ConnectionError", "JSONDecodeError", "Exception"}

\* How the download of the job in hand ends: the blob exists already, the
\* download library raises or returns None, the files are downloaded and
\* uploaded, or another call of the function raises (os.mkdir, the storage
\* client, the upload).
Downloads == {"exists", "failed", "downloaded", "raised"}

\* The body _download_video_to_gcp posts, None when it raises before any post.
_download_video_to_gcp(_id, instance_name, result) ==
    IF result = "exists"
    THEN Some([video_id |-> _id, status |-> "skipped", error |-> None,
               worker_id |-> instance_name])
    ELSE IF result = "failed"
    THEN Some([video_id |-> _id, status |-> "skipped",
               error |-> Some("Could not download video"),
               worker_id |-> instance_name, worker_message |-> "boom"])
    ELSE IF result = "downloaded"
    THEN Some([video_id |-> _id, status |-> "ok", error |-> None,
               worker_id |-> instance_name])
    ELSE None

\* The body _download_audio_to_gcp posts, None when it raises before any post.
_download_audio_to_gcp(_id, instance_name, result) ==
    IF result = "exists"
    THEN Some([video_id |-> _id, status |-> "skipped", error |-> None,
               worker_id |-> instance_name])
    ELSE IF result = "failed"
    THEN Some([video_id |-> _id, status |-> "failed",
               error |-> Some("Could not download audio"),
               worker_id |-> instance_name, worker_message |-> "boom"])
    ELSE IF result = "downloaded"
    THEN Some([video_id |-> _id, status |-> "ok", error |-> None,
               worker_id |-> instance_name])
    ELSE None

\* The body the script prog posts for the job _id.
download_report(prog, _id, instance_name, result) ==
    IF prog = "worker.py"
    THEN _download_video_to_gcp(_id, instance_name, result)
    ELSE _download_audio_to_gcp(_id, instance_name, result)

\* Mutant: the handler of ConnectionError is missing, the error reaches the
\* handler of Exception.
except_ConnectionError_missing(wk) == [wk EXCEPT !.worker_status = "error"]

\* lines 182-184: except requests.exceptions.ConnectionError, then time.sleep(5).
except_ConnectionError(wk) == [wk EXCEPT !.pc = "L184"]

\* lines 185-186: except Exception (worker_audio_only.py keeps str(e) too).
except_Exception(prog, wk) ==
    IF prog = "worker.py"
    THEN [wk EXCEPT !.worker_status = "error"]
    ELSE [wk EXCEPT !.worker_status = "error", !.worker_message = "boom"]

\* lines 165-175: what main() does with the reply r.
Replied(wk, r) ==
    IF "pending_finish" \in DOMAIN r THEN [wk EXCEPT !.pc = "L167"]
    ELSE IF "finished" \in DOMAIN r THEN [wk EXCEPT !.pc = "L172"]
    ELSE [wk EXCEPT !.pc = "L175", !.next_video_data = Some(r._id)]

\* Mutant: the handler of lines 176-180 logs the exception and goes on.
DownloadRaised_logged(wk) == [wk EXCEPT !.pc = "L156", !.next_video_data = None]

\* lines 176-180: the download function raised.
DownloadRaised(wk) ==
    [wk EXCEPT !.pc = "L156", !.worker_status = "error", !.worker_message = "boom",
               !.next_video_data = None]

\* The download function returned (worker_audio_only.py lines 305-306 reset the
\* worker's status, worker.py leaves it).
DownloadReturned(prog, wk) ==
    IF prog = "worker.py"
    THEN [wk EXCEPT !.pc = "L156", !.next_video_data = None]
    ELSE [wk EXCEPT !.pc = "L156", !.next_video_data = None,
                    !.worker_status = "ok", !.worker_message = ""]

\* The loop of main() has ended: break at line 172, sys.exit(1) at line 163.
Ended == {"L172", "L163"}

\* lines 156-172, 182-186: one poll of worker w and what main() does with its result.
worker_L156(w, result) ==
    /\ worker[w].pc = "L156"
    /\ \/ /\ result = "reply"
          /\ next_video_GET(w, worker[w].worker_status, worker[w].worker_message)
          /\ worker' = [worker EXCEPT ![w] =
                Replied(@, next_video_GET_reply(metadata, worker[w].worker_status))]
       \/ /\ result = "ConnectionError"
          /\ worker' = [worker EXCEPT ![w] = except_ConnectionError(@)]
          /\ UNCHANGED server
       \/ /\ result = "JSONDecodeError"
          /\ worker' = [worker EXCEPT ![w] = [@ EXCEPT !.pc = "L163"]]
          /\ UNCHANGED server
       \/ /\ result = "Exception"
          /\ worker' = [worker EXCEPT ![w] = except_Exception(program, @)]
          /\ UNCHANGED server
    /\ UNCHANGED <<program, launcher, placement>>

\* lines 167 and 184: time.sleep(5), then the next poll.
worker_sleep(w) ==
    /\ worker[w].pc \in {"L167", "L184"}
    /\ worker' = [worker EXCEPT ![w] = [@ EXCEPT !.pc = "L156"]]
    /\ UNCHANGED <<server, program, launcher, placement>>

\* lines 174-180: the download of the job in hand; delivered tells whether the
\* post of the report reaches the server (a failure of the post is logged and
\* dropped).
worker_L175(w, result, delivered) ==
    /\ worker[w].pc = "L175"
    /\ LET body == download_report(program, worker[w].next_video_data[1], w, result)
       IN  IF body = None
           THEN /\ worker' = [worker EXCEPT ![w] = DownloadRaised(@)]
                /\ UNCHANGED server
           ELSE /\ worker' = [worker EXCEPT ![w] = DownloadReturned(program, @)]
                /\ IF delivered THEN next_video_POST(body) ELSE UNCHANGED server
    /\ UNCHANGED <<program, launcher, placement>>

\* ------------------------------------------------------------------ WorkerSpec
\* The server with the worker scripts as its clients, the sweeper and the clock.
WorkerPoll == \E w \in Workers, result \in PollResults : worker_L156(w, result)
WorkerSleep == \E w \in Workers : worker_sleep(w)
WorkerDownload ==
    \E w \in Workers, result \in Downloads, delivered \in BOOLEAN :
        worker_L175(w, result, delivered)

WorkerNext ==
    \/ WorkerPoll /\ UNCHANGED <<threads, history, log>>
    \/ WorkerSleep /\ UNCHANGED <<threads, history, log>>
    \/ WorkerDownload /\ UNCHANGED <<threads, history, log>>
    \/ _check_and_retry_downloads /\ UNCHANGED <<threads, history, log, clients>>
    \/ Tick /\ UNCHANGED <<threads, history, log, clients>>

\* Every worker instance runs the same script, either of the two.
WorkerInit ==
    /\ server_main
    /\ program \in Programs
    /\ worker = [w \in Workers |-> worker_main]
    /\ launcher = app_main
    /\ placement = app_flags

WorkerSpec == WorkerInit /\ [][WorkerNext]_vars

\* ------------------------------------------------------------------ StrandSpec
\* WorkerSpec for the workers of worker.py and --retries at its largest, with a
\* scheduler that keeps running its passes (every 5 seconds, line 164) and a
\* clock that keeps advancing up to MaxTime. Nothing is assumed of the workers:
\* each may stop at any line, and any of its reports may be lost.
SweeperPass == _check_and_retry_downloads /\ UNCHANGED <<threads, history, log, clients>>
ClockTick == Tick /\ UNCHANGED <<threads, history, log, clients>>

StrandInit == WorkerInit /\ program = "worker.py" /\ FLAGS.retries = MaxFlagRetries

StrandSpec ==
    /\ StrandInit
    /\ [][WorkerNext]_vars
    /\ WF_vars(SweeperPass)
    /\ WF_vars(ClockTick)

\* ------------------------------------------------------------------ app.py
\* The launcher: main() creates the server's instance and the workers'
\* instances, polls /status until the server says done, and removes the
\* instances. A step of main() ends normally, with an exception, or with the
\* KeyboardInterrupt of an interrupt.
StepResults == {"ok", "Exception", "KeyboardInterrupt"}

\* How requests.get(.../status, timeout=1) ends ("Exception": any other
\* exception of lines 160-171, such as a 200 whose body is not the status).
StatusResults == {"200", "non200", "ConnectionError", "Timeout", "Exception"}

\* --num_workers
NumWorkers == Cardinality(Workers)

\* The instances of this run: starship-<run_name>-srv, starship-<run_name>-wrk-<i>.
Srv == <<"srv">>
Wrk(i) == <<"wrk", i>>

\* An exception leaves main(): the interpreter exits through its atexit hooks.
Raised(l) == [l EXCEPT !.pc = "atexit"]

\* Mutant: anything but a 200 that is not done ends the polling.
_poll_server_status_until_error(result, stat) == result = "200" /\ ~stat.done

\* What _poll_server_status returns (True: keep polling) when the request ends
\* with result and a 200 carries stat.
_poll_server_status(result, stat) == ~(result = "200" /\ stat.done)

\* Mutant: the interpreter exits without running the hooks.
atexit_run_nothing(l, rest) == [l EXCEPT !.pc = "exited"]

\* The interpreter exits: the registered hooks run. exit_handler deletes the
\* instances of the run; rest are those left when a call of it raises.
atexit_run(l, rest) ==
    IF l.hooks = {} THEN [l EXCEPT !.pc = "exited"]
    ELSE [l EXCEPT !.pc = "exited", !.teardown = @ \cup l.hooks, !.instances = rest]

\* line 212: _discover_running_instances (sys.exit(1) when a run is found).
app_L212(result) ==
    /\ launcher.pc = "L212"
    /\ launcher' = IF result = "ok" THEN [launcher EXCEPT !.pc = "L220"] ELSE Raised(launcher)
    /\ UNCHANGED <<server, program, worker, placement>>

\* lines 220-221: the exit hook is built and registered.
app_L220(result) ==
    /\ launcher.pc = "L220"
    /\ launcher' = IF result = "ok"
                   THEN [launcher EXCEPT !.pc = "L224", !.hooks = @ \cup {"exit_handler"},
                                         !.registered = TRUE]
                   ELSE Raised(launcher)
    /\ UNCHANGED <<server, program, worker, placement>>

\* lines 224-227: the input is loaded, the scripts and the input are uploaded.
app_L224(result) ==
    /\ launcher.pc = "L224"
    /\ launcher' = IF result = "ok" THEN [launcher EXCEPT !.pc = "L230"] ELSE Raised(launcher)
    /\ UNCHANGED <<server, program, worker, placement>>

\* lines 230-233: _start_server; when it raises the instance may exist already
\* (create_instance returned, wait_for_operation raised).
app_L230(result, created) ==
    /\ launcher.pc = "L230"
    /\ launcher' = IF result = "ok"
                   THEN [launcher EXCEPT !.pc = "L236", !.instances = @ \cup {Srv}]
                   ELSE Raised([launcher EXCEPT
                                   !.instances = IF created THEN @ \cup {Srv} ELSE @])
    /\ UNCHANGED <<server, program, worker, placement>>

\* lines 236-258: one round of the loop over the workers. _start_worker logs and
\* drops an Exception; "break": no zone is left (line 246).
app_L236(result) ==
    /\ launcher.pc = "L236"
    /\ LET after == IF launcher.idx + 1 = NumWorkers THEN "L270" ELSE "L236"
       IN  launcher' =
             IF result = "ok"
             THEN [launcher EXCEPT !.pc = after, !.idx = @ + 1,
                                   !.instances = @ \cup {Wrk(launcher.idx)}]
             ELSE IF result = "Exception"
             THEN [launcher EXCEPT !.pc = after, !.idx = @ + 1]
             ELSE IF result = "break"
             THEN [launcher EXCEPT !.pc = "L270"]
             ELSE Raised(launcher)
    /\ UNCHANGED <<server, program, worker, placement>>

\* line 270: _poll_server_status; the server answers while its instance exists.
app_L270(result) ==
    /\ launcher.pc = "L270"
    /\ result = "200" => Srv \in launcher.instances
    /\ launcher' =
          IF result = "KeyboardInterrupt" THEN Raised(launcher)
          ELSE [launcher EXCEPT
                  !.pc = IF _poll_server_status(result, status(metadata, workers_seen))
                         THEN "L271" ELSE "L273",
                  !.polled = @ \cup {result}]
    /\ UNCHANGED <<server, program, worker, placement>>

\* line 271: time.sleep(5).
app_L271(result) ==
    /\ launcher.pc = "L271"
    /\ launcher' = IF result = "ok" THEN [launcher EXCEPT !.pc = "L270"] ELSE Raised(launcher)
    /\ UNCHANGED <<server, program, worker, placement>>

\* line 273: _cleanup_instances; rest are the instances left when it raises.
app_L273(result, rest) ==
    /\ launcher.pc = "L273"
    /\ launcher' =
          IF result = "ok"
          THEN [launcher EXCEPT !.pc = "L276", !.instances = {},
                                !.teardown = @ \cup {"_cleanup_instances"}]
          ELSE Raised([launcher EXCEPT !.instances = rest,
                                       !.teardown = @ \cup {"_cleanup_instances"}])
    /\ UNCHANGED <<server, program, worker, placement>>

\* line 276: the exit hook is unregistered.
app_L276(result) ==
    /\ launcher.pc = "L276"
    /\ launcher' = IF result = "ok"
                   THEN [launcher EXCEPT !.pc = "L278", !.hooks = @ \ {"exit_handler"}]
                   ELSE Raised(launcher)
    /\ UNCHANGED <<server, program, worker, placement>>

\* line 278: main() returns.
app_L278 ==
    /\ launcher.pc = "L278"
    /\ launcher' = [launcher EXCEPT !.pc = "atexit"]
    /\ UNCHANGED <<server, program, worker, placement>>

\* The process ends.
app_atexit(rest) ==
    /\ launcher.pc = "atexit"
    /\ launcher' = atexit_run(launcher, rest)
    /\ UNCHANGED <<server, program, worker, placement>>

\* ------------------------------------------------------------------ LauncherSpec
\* The launcher next to the server it starts: polls and reports reach the
\* server while its instance exists. The clock stands still.
Launch ==
    \/ \E result \in StepResults : app_L212(result)
    \/ \E result \in StepResults : app_L220(result)
    \/ \E result \in StepResults : app_L224(result)
    \/ \E result \in StepResults, created \in BOOLEAN : app_L230(result, created)
    \/ \E result \in StepResults \cup {"break"} : app_L236(result)
Watch ==
    \/ \E result \in StatusResults \cup {"KeyboardInterrupt"} : app_L270(result)
    \/ \E result \in {"ok", "KeyboardInterrupt"} : app_L271(result)
Teardown ==
    \/ \E result \in StepResults, rest \in SUBSET launcher.instances : app_L273(result, rest)
    \/ \E result \in StepResults : app_L276(result)
    \/ app_L278
    \/ \E rest \in SUBSET launcher.instances : app_atexit(rest)

LauncherNext ==
    \/ Launch /\ UNCHANGED <<threads, history, log>>
    \/ Watch /\ UNCHANGED <<threads, history, log>>
    \/ Teardown /\ UNCHANGED <<threads, history, log>>
    \/ Srv \in launcher.instances /\ Poll /\ UNCHANGED <<threads, history, log, clients>>
    \/ Srv \in launcher.instances /\ Report /\ UNCHANGED <<threads, history, log, clients>>

\* One job, --retries at its largest.
LauncherInit == Init /\ FLAGS.retries = MaxFlagRetries /\ Cardinality(videos) = 1

LauncherSpec == LauncherInit /\ [][LauncherNext]_vars

\* ------------------------------------------------------------------ ZoneSpec
\* The zones main() of app.py creates its instances in (lines 215-258), for
\* every --num_workers, --zones and --max_workers_per_zone of the bounds.
\* worker_ops[z] lists what was appended for zone z: the server's operation, a
\* worker's operation, or None for a worker whose creation raised.

\* The workers created in zone z.
WorkersIn(ops, z) == {i \in 1..Len(ops[z]) : ops[z][i] # None /\ ops[z][i] # Srv}

\* lines 230-233: the server is created in the first zone.
zone_L230 ==
    /\ placement.pc = "L230"
    /\ placement' = [placement EXCEPT !.pc = "L236",
                                      !.worker_ops[0] = Append(@, Srv)]
    /\ UNCHANGED <<server, program, worker, launcher>>

\* The zone of the next worker (lines 238-239).
NextZone(p) ==
    IF Len(p.worker_ops[p.current_zone]) > p.max_workers_per_zone
    THEN p.current_zone + 1 ELSE p.current_zone

\* lines 236-258: one round of the loop over the workers; result tells whether
\* _start_worker returned an operation or logged an exception and returned None.
zone_L236(result) ==
    /\ placement.pc = "L236"
    /\ placement' =
          IF placement.idx >= placement.num_workers
          THEN [placement EXCEPT !.pc = "L260"]
          ELSE IF NextZone(placement) >= placement.zones
          THEN [placement EXCEPT !.pc = "L260", !.current_zone = NextZone(placement)]
          ELSE [placement EXCEPT
                  !.current_zone = NextZone(placement),
                  !.worker_ops[NextZone(placement)] =
                      Append(@, IF result = "ok" THEN Wrk(placement.idx) ELSE None),
                  !.idx = @ + 1]
    /\ UNCHANGED <<server, program, worker, launcher>>

ZoneNext ==
    \/ zone_L230 /\ UNCHANGED <<threads, history, log>>
    \/ (\E result \in {"ok", "Exception"} : zone_L236(result)) /\ UNCHANGED <<threads, history, log>>

\* No job: the server's instance is not started yet.
ZoneInit ==
    /\ server_main
    /\ videos = {}
    /\ FLAGS = [timeout |-> 0, retries |-> 0]
    /\ program = "worker.py"
    /\ worker = [w \in Workers |-> worker_main]
    /\ launcher = app_main
    /\ \E n \in 0..MaxNumWorkers, nz \in 1..MaxZones, m \in 0..MaxPerZone :
          placement = [app_flags EXCEPT !.num_workers = n, !.zones = nz,
                                        !.max_workers_per_zone = m,
                                        !.worker_ops = [z \in 0..(nz - 1) |-> <<>>]]

ZoneSpec == ZoneInit /\ [][ZoneNext]_vars

\* ================================================================== claims
\* C1 (as claimed): a job whose status is finished, skipped or failed never
\* changes status again, whatever polls, reports and sweeper passes follow.
C1_TerminalAbsorbing ==
    [][\A k \in videos :
          metadata[k].status \in Terminal => metadata'[k].status = metadata[k].status]_vars

\* C2 (as claimed): every status change of a job is one of waiting->downloading,
\* downloading->finished, downloading->skipped, downloading->failed,
\* downloading->waiting.
Edges ==
    {<<"waiting", "downloading">>, <<"downloading", "finished">>,
     <<"downloading", "skipped">>, <<"downloading", "failed">>,
     <<"downloading", "waiting">>}

C2_OnlyEdges ==
    [][\A k \in videos :
          metadata'[k].status # metadata[k].status
              => <<metadata[k].status, metadata'[k].status>> \in Edges]_vars

\* C3 (as claimed): two polls are never both answered with the same job, unless
\* the job was reported on or reclaimed between the two answers.
C3_ExclusiveAssignment == \A k \in videos : Cardinality(handed[k]) <= 1

\* C4: a report with a status other than ok or skipped moves the job to waiting
\* with retries + 1 and error set when retries < --retries before the report, and
\* to failed with retries unchanged otherwise.
C4_BoundedRetry ==
    [][\A d \in FullBodies :
          (d.video_id \in videos /\ d.status \notin {"ok", "skipped"}
              /\ next_video_POST(Some(d)))
          => LET old == metadata[d.video_id]
                 new == metadata'[d.video_id]
             IN  IF old.retries < FLAGS.retries
                 THEN /\ new.status = "waiting"
                      /\ new.retries = old.retries + 1
                      /\ new.error = Some(d.status)
                 ELSE /\ new.status = "failed"
                      /\ new.retries = old.retries]_vars

\* With --retries=1 a job has been failed by a report at retries = 1.
C4_Witness ==
    /\ FLAGS.retries = 1
    /\ \E k \in videos :
          /\ metadata[k].status = "failed"
          /\ metadata[k].retries = 1
          /\ metadata[k].error = Some("error")

\* The ledger without job j.
Others(md, j) == [k \in DOMAIN md \ {j} |-> md[k]]

\* The n-th failure report of a job that was never reclaimed or redirected leaves
\* it failed, and /status counts it in neither waiting nor downloading.
FailedAtReport(n) ==
    \A j \in videos :
        (reclaims[j] = 0 /\ failure_reports[j] = n - 1 /\ failure_reports'[j] = n)
        => \A d \in FullBodies :
              (d.video_id = j /\ d.status \notin {"ok", "skipped"}
                  /\ next_video_POST(Some(d)) /\ next_video_POST_history(Some(d)))
              => /\ metadata'[j].status = "failed"
                 /\ status(metadata', workers_seen').waiting
                        = status(Others(metadata', j), workers_seen').waiting
                 /\ status(metadata', workers_seen').downloading
                        = status(Others(metadata', j), workers_seen').downloading

\* C5 (as claimed): after max_retries failure reports, with no timeout or redirect
\* in between, the job is failed and counted in neither waiting nor downloading.
C5_FailedAfterMaxRetries == [][FailedAtReport(FLAGS.retries)]_vars

\* C5 (amended): after max_retries + 1 failure reports, with no timeout or
\* redirect in between, the job is failed and counted in neither waiting nor
\* downloading.
C5_FailedAfterOneMore == [][FailedAtReport(FLAGS.retries + 1)]_vars

\* A job never reclaimed is failed right after its (max_retries + 1)-th failure report.
C5_Witness ==
    \E k \in videos :
        /\ FLAGS.retries >= 1
        /\ failure_reports[k] = FLAGS.retries + 1
        /\ reclaims[k] = 0
        /\ metadata[k].status = "failed"
        /\ metadata[k].end_time = Some(now)

\* C6: a sweeper pass moves every job that is downloading past the timeout to
\* waiting with retries + 1 and the timeout message, whatever its retries, leaves
\* every other job as it is, and marks no job failed.
C6_TimeoutUnbounded ==
    [][_check_and_retry_downloads
          => \A k \in videos :
                LET old == metadata[k]
                IN  IF /\ old.status = "downloading"
                       /\ old.start_time # None
                       /\ now - old.start_time[1] > FLAGS.timeout
                    THEN metadata'[k] = [old EXCEPT !.status = "waiting",
                                                    !.retries = old.retries + 1,
                                                    !.error = Some(TimeoutMessage)]
                    ELSE metadata'[k] = old]_vars

\* A job was reclaimed although its retries had reached --retries.
C6_Witness ==
    \E k \in videos :
        /\ metadata[k].status = "waiting"
        /\ metadata[k].error = Some(TimeoutMessage)
        /\ metadata[k].retries > FLAGS.retries

\* C7 (as claimed): an unhealthy poll of the worker that was handed job k, k still
\* downloading, leaves k waiting with retries + 1 and the worker's message, so
\* that /status counts it as waiting.
C7_UnhealthyRedirect ==
    [][\A w \in Workers, m \in WorkerMessages, k \in videos :
          (w \in handed[k] /\ metadata[k].status = "downloading"
              /\ next_video_GET(w, "error", m) /\ next_video_GET_history(w, "error"))
          => /\ metadata'[k].status = "waiting"
             /\ metadata'[k].retries = metadata[k].retries + 1
             /\ metadata'[k].error = Some(m)
             /\ status(metadata', workers_seen').waiting >= 1]_vars

\* C8 (as claimed): a job whose status is downloading has a worker_id and a start_time.
C8_AssignmentInvariant ==
    \A k \in videos :
        metadata[k].status = "downloading"
            => metadata[k].worker_id # None /\ metadata[k].start_time # None

\* C9: the done flag of /status is true exactly when every job is finished,
\* skipped or failed, that is exactly when /status counts no job as waiting and
\* none as downloading (an empty job list is done).
C9_DoneFlag ==
    LET st == status(metadata, workers_seen)
    IN  /\ st.done <=> \A k \in videos : metadata[k].status \in Terminal
        /\ st.done <=> (st.waiting = 0 /\ st.downloading = 0)

\* All jobs of a non-empty list have ended, one of them failed, and /status says done.
C9_Witness ==
    /\ Cardinality(videos) = MaxJobs
    /\ \E k \in videos : metadata[k].status = "failed"
    /\ status(metadata, workers_seen).done

\* C10: a healthy poll is answered pending_finish iff no job is waiting and one
\* is downloading, finished iff no job is waiting and none is downloading, and
\* otherwise with the payload of a job that was waiting before the poll and is
\* downloading after it.
C10_ReplyDecision ==
    [][\A w \in Workers, m \in WorkerMessages :
          next_video_GET(w, "ok", m)
          => LET r == next_video_GET_reply(metadata, "ok")
                 W == \E k \in videos : metadata[k].status = "waiting"
                 D == \E k \in videos : metadata[k].status = "downloading"
             IN  /\ r = PendingReply <=> (~W /\ D)
                 /\ r = FinishedReply <=> (~W /\ ~D)
                 /\ (r # PendingReply /\ r # FinishedReply) <=> W
                 /\ W => \E k \in videos :
                            /\ r = JobReply(k)
                            /\ metadata[k].status = "waiting"
                            /\ metadata'[k].status = "downloading"]_vars

\* A healthy worker has just polled while the only unfinished job is downloading.
C10_Witness ==
    /\ \E w \in DOMAIN workers_seen :
          workers_seen[w].status = "ok" /\ workers_seen[w].last_seen = now
    /\ \E k \in videos : metadata[k].status = "downloading"
    /\ \E k \in videos : metadata[k].status \in Terminal
    /\ \A k \in videos : metadata[k].status # "waiting"

\* C11: a poll with worker_status other than ok is answered finished and hands
\* out no job: no job goes from waiting to downloading in that poll, also when
\* jobs are waiting.
C11_UnhealthyNeverAssigned ==
    [][\A w \in Workers, s \in WorkerStatuses \ {"ok"}, m \in WorkerMessages :
          next_video_GET(w, s, m)
          => /\ next_video_GET_reply(metadata, s) = FinishedReply
             /\ \A k \in videos :
                   ~(metadata[k].status = "waiting" /\ metadata'[k].status = "downloading")]_vars

\* An unhealthy worker has polled while every job was waiting, never handed out
\* or reported on, and every job is waiting still.
C11_Witness ==
    /\ videos # {}
    /\ \A k \in videos : metadata[k] = InitialRecord
    /\ \E w \in DOMAIN workers_seen : workers_seen[w].status = "error"

\* C15: a well-formed report with status ok leaves the job it names finished,
\* one with status skipped leaves it skipped; in both cases error is None,
\* end_time is the time of the report and retries is what it was.
C15_TerminalOutcome ==
    [][\A d \in FullBodies :
          (d.video_id \in videos /\ d.status \in {"ok", "skipped"}
              /\ next_video_POST(Some(d)))
          => LET old == metadata[d.video_id]
                 new == metadata'[d.video_id]
             IN  /\ d.status = "ok" => new.status = "finished"
                 /\ d.status = "skipped" => new.status = "skipped"
                 /\ new.error = None
                 /\ new.end_time = Some(now)
                 /\ new.retries = old.retries]_vars

\* A job that had been retried was reported skipped just now.
C15_Witness ==
    \E k \in videos :
        /\ metadata[k].status = "skipped"
        /\ metadata[k].retries >= 1
        /\ metadata[k].error = None
        /\ metadata[k].end_time = Some(now)

\* C16: in every step the retries of every job stays or grows by 1; it grows
\* only in a sweeper pass that finds the job past the timeout, in an unhealthy
\* poll that redirects it, or in a failure report that returns it to waiting;
\* an assignment, a report ok or skipped and a report that marks the job failed
\* change no job's retries.
C16_RetriesMonotone ==
    [][/\ \A k \in videos :
             metadata'[k].retries \in {metadata[k].retries, metadata[k].retries + 1}
       /\ \A k \in videos :
             metadata'[k].retries = metadata[k].retries + 1
             => \/ _check_and_retry_downloads /\ Expired(metadata[k], now, FLAGS.timeout)
                \/ \E w \in Workers, m \in WorkerMessages :
                      next_video_GET(w, "error", m) /\ k \in HeldBy(metadata, w)
                \/ \E d \in FullBodies :
                      /\ d.video_id = k /\ IsFailure(d.status)
                      /\ next_video_POST(Some(d))
                      /\ metadata'[k].status = "waiting"
       /\ \A w \in Workers, m \in WorkerMessages :
             next_video_GET(w, "ok", m)
             => \A k \in videos : metadata'[k].retries = metadata[k].retries
       /\ \A d \in FullBodies :
             (/\ d.video_id \in videos
              /\ next_video_POST(Some(d))
              /\ d.status \in {"ok", "skipped"} \/ metadata'[d.video_id].status = "failed")
             => \A k \in videos : metadata'[k].retries = metadata[k].retries]_vars

\* A job retried twice, once by a failure report and once by the sweeper, has
\* been handed out again with its retries kept.
C16_Witness ==
    \E k \in videos :
        /\ metadata[k].retries = 2
        /\ metadata[k].status = "downloading"
        /\ metadata[k].end_time = None

\* C12 (as claimed): once every job was finished, skipped or failed, every later
\* poll, healthy or not, is answered finished and changes no job record.
C12_FinishedOnceDone ==
    [][\A w \in Workers, s \in WorkerStatuses, m \in WorkerMessages :
          (done_seen /\ next_video_GET(w, s, m))
          => /\ next_video_GET_reply(metadata, s) = FinishedReply
             /\ metadata' = metadata]_vars

\* C13 (as claimed): a report naming a job id that is not in the ledger is
\* answered with an {error: ...} payload and changes neither the ledger nor the
\* registry.
C13_UnknownJobId ==
    [][\A d \in FullBodies :
          (/\ d.video_id \notin videos
           /\ last_report' = Some(next_video_POST_reply(metadata, Some(d)))
           /\ next_video_POST(Some(d)))
          => /\ "error" \in DOMAIN last_report'[1]
             /\ metadata' = metadata
             /\ workers_seen' = workers_seen]_vars

\* The body is missing, or lacks one of the required fields.
MissingField(data) == data = None \/ ~(Required \subseteq DOMAIN data[1])

\* C14: a report with no body, or without video_id, status or worker_id, is
\* answered with an {error: ...} payload and changes neither the ledger nor the
\* registry.
C14_MalformedReport ==
    [][\A data \in Bodies :
          (/\ MissingField(data)
           /\ last_report' = Some(next_video_POST_reply(metadata, data))
           /\ next_video_POST(data))
          => /\ "error" \in DOMAIN last_report'[1]
             /\ metadata' = metadata
             /\ workers_seen' = workers_seen]_vars

\* The latest report was answered "No worker_id provided" while its job was
\* downloading and the worker of the other malformed bodies was registered.
C14_Witness ==
    /\ last_report = Some(ErrorReply("No worker_id provided"))
    /\ 0 \in videos /\ metadata[0].status = "downloading"
    /\ "w1" \in DOMAIN workers_seen

\* The number of jobs with status s.
Jobs(s) == Cardinality({k \in videos : metadata[k].status = s})

\* C20 (as claimed): between requests the finished field of /status is the
\* number of jobs whose status is finished, and finished + skipped + failed +
\* waiting + downloading = total.
C20_CountsPerStatus ==
    LET st == status(metadata, workers_seen)
    IN  /\ st.finished = Jobs("finished")
        /\ st.finished + st.skipped + st.failed + st.waiting + st.downloading = st.total

\* C20 (amended): between requests the finished field of /status is the number
\* of jobs whose status is finished, skipped or failed, the fields failed,
\* skipped, waiting and downloading each count the jobs of that status, and
\* finished + waiting + downloading = total.
C20_FinishedCountsEnded ==
    LET st == status(metadata, workers_seen)
    IN  /\ st.finished = Jobs("finished") + Jobs("skipped") + Jobs("failed")
        /\ st.failed = Jobs("failed")
        /\ st.skipped = Jobs("skipped")
        /\ st.waiting = Jobs("waiting")
        /\ st.downloading = Jobs("downloading")
        /\ st.total = Cardinality(videos)
        /\ st.finished + st.waiting + st.downloading = st.total

\* One job was skipped and one failed: /status says finished: 2 of 2.
C20_Witness ==
    /\ Jobs("skipped") = 1 /\ Jobs("failed") = 1
    /\ status(metadata, workers_seen).finished = 2
    /\ status(metadata, workers_seen).total = 2

\* A step of the sweeper's thread.
SweeperStep == pc'["sweeper"] # pc["sweeper"] \/ local'["sweeper"] # local["sweeper"]

\* Job k was reported ok or skipped since it was last handed out: only such a
\* report leaves end_time set and error None.
ReportedDone(k) == metadata[k].end_time # None /\ metadata[k].error = None

\* C17 (as claimed): with the sweeper's test and its writes as separate steps,
\* once a report ok or skipped has set a job finished or skipped no step of the
\* sweeper changes the job's status or its retries.
C17_SweeperKeepsReport ==
    [][\A k \in videos :
          (SweeperStep /\ ReportedDone(k))
          => /\ metadata'[k].status = metadata[k].status
             /\ metadata'[k].retries = metadata[k].retries]_vars

\* C18 (as claimed): the updates of one job never interleave: no job is handed
\* out while the sweeper is between its write of status = waiting and its
\* writes of retries and error, and every record is one that a serial order of
\* the operations leaves; in a serial order a downloading job has error None.
C18_PerJobSerialized ==
    [][/\ \A k \in videos :
             (pc["sweeper"] \in {"L22", "L23"} /\ SweepJob = k)
             => ~(metadata[k].status = "waiting" /\ metadata'[k].status = "downloading")
       /\ \A k \in videos :
             metadata'[k].status = "downloading" => metadata'[k].error = None]_vars

\* Run one at a time, the operations leave every downloading job with error None.
SerialDownloading ==
    \A k \in videos : metadata[k].status = "downloading" => metadata[k].error = None

\* C19 (as claimed): the counts and the done flag of every /status response are
\* those of one ledger state that existed while the request ran.
C19_ConsistentSnapshot ==
    At("status", "L125")
        => \E c \in snapshots : \A f \in CountFields : local["status"][f] = c[f]

\* The step is an accepted failure report on job j.
FailureReport(j) ==
    \E d \in FullBodies :
        /\ d.video_id = j /\ IsFailure(d.status)
        /\ next_video_POST(Some(d)) /\ next_video_POST_history(Some(d))

\* C21 (as claimed): a failure report on a job that has had fewer than
\* max_retries failure reports returns it to waiting, however often the job was
\* reclaimed by timeout before.
C21_TimeoutsOutsideBudget ==
    [][\A j \in videos :
          (failure_reports[j] < FLAGS.retries /\ failure_reports'[j] = failure_reports[j] + 1
              /\ FailureReport(j))
          => metadata'[j].status = "waiting"]_vars

\* C21 (amended): timeout reclaims count in the same retries as failure
\* reports: a failure report returns the job to waiting when its earlier failure
\* reports and timeout reclaims together are fewer than max_retries, and marks
\* it failed when its timeout reclaims alone have reached max_retries.
C21_TimeoutsInsideBudget ==
    [][\A j \in videos :
          (failure_reports'[j] = failure_reports[j] + 1 /\ FailureReport(j))
          => /\ failure_reports[j] + reclaims[j] < FLAGS.retries
                    => metadata'[j].status = "waiting"
             /\ reclaims[j] >= FLAGS.retries => metadata'[j].status = "failed"]_vars

\* With --retries=1 a job reclaimed by timeout was failed by its first failure report.
C21_Witness ==
    \E k \in videos :
        /\ FLAGS.retries = 1
        /\ reclaims[k] >= 1
        /\ failure_reports[k] = 1
        /\ metadata[k].status = "failed"
        /\ metadata[k].error = Some("error")

\* C22 (as claimed): after an accepted report naming worker w the registry
\* holds an entry for w whose last_seen is the time of the report, also when w
\* never polled.
C22_ReportTouches ==
    [][\A d \in FullBodies :
          (d.video_id \in videos /\ next_video_POST(Some(d)))
          => /\ d.worker_id \in DOMAIN workers_seen'
             /\ workers_seen'[d.worker_id].last_seen = now]_vars

\* C22 (amended): an accepted report naming worker w refreshes last_seen of w's
\* entry, and replaces its status and message when the report gives them, if
\* the registry holds an entry for w; it leaves the registry as it is, without
\* an entry for w, when w never polled.
C22_ReportTouchesKnown ==
    [][\A d \in FullBodies :
          (d.video_id \in videos /\ next_video_POST(Some(d)))
          => IF d.worker_id \in DOMAIN workers_seen
             THEN /\ DOMAIN workers_seen' = DOMAIN workers_seen
                  /\ \A w \in DOMAIN workers_seen \ {d.worker_id} :
                        workers_seen'[w] = workers_seen[w]
                  /\ LET old == workers_seen[d.worker_id]
                         new == workers_seen'[d.worker_id]
                     IN  /\ new.last_seen = now
                         /\ new.status = IF "worker_status" \in DOMAIN d
                                         THEN d.worker_status ELSE old.status
                         /\ new.message = IF "worker_message" \in DOMAIN d
                                          THEN d.worker_message ELSE old.message
                         /\ new.notified_finished = old.notified_finished
             ELSE workers_seen' = workers_seen]_vars

\* A job was reported on and the registry is empty still: no worker ever polled.
C22_Witness ==
    /\ DOMAIN workers_seen = {}
    /\ \E k \in videos : metadata[k].end_time # None /\ metadata[k].status = "finished"

\* C25 (as claimed): the sweeper reclaims no job on a start_time left over from
\* an earlier assignment: it reclaims no job that the one poll being served has
\* set downloading (line 58) and not yet given its start_time (line 60), the job
\* being held by no worker and reported on at the present time, so that its
\* latest assignment is no older than the timeout.
C25_ReclaimOnFreshStart ==
    [][\A k \in videos, w \in Workers :
          (/\ ConcSweep
           /\ k \in Swept(metadata, now, FLAGS.timeout)
           /\ handed[k] = {}
           /\ metadata[k].end_time = Some(now)
           /\ \A v \in Workers \ {w} : pc[v] = "idle")
          => ~(pc[w] \in {"L59", "L60"} /\ Job(w) = k)]_vars

\* C26 (as claimed): a sweeper pass that meets a job that is downloading with
\* start_time None skips it and tests every other job: every job that is
\* downloading past the timeout is waiting after the pass.
C26_PassSkipsAnomaly ==
    [][PassSweep
          => /\ \A k \in videos : ~Raises(metadata[k]) => k \in examined'[1]
             /\ \A k \in videos :
                   Expired(metadata[k], now, FLAGS.timeout)
                       => metadata'[k].status = "waiting"]_vars

\* C24 (as claimed): when the download library fails on a worker's job and the
\* worker's report reaches the server, the job goes back to waiting with one more
\* retry while its retries are below --retries and becomes failed otherwise; it
\* never ends as skipped.
C24_DownloadFailureRetried ==
    [][\A w \in Workers :
          worker_L175(w, "failed", TRUE)
              => LET k == worker[w].next_video_data[1]
                 IN  /\ metadata'[k].status # "skipped"
                     /\ metadata'[k].status =
                            IF metadata[k].retries < FLAGS.retries THEN "waiting" ELSE "failed"]_vars

\* C27: a poll of /status sends the launcher to _cleanup_instances exactly when
\* it ends with a 200 whose done is true; after any other result (a 200 that is
\* not done, another status code, a connection error, a timeout, any other
\* exception) the launcher sleeps and polls again with no teardown started; and
\* _cleanup_instances starts from nowhere else.
C27_TeardownAfterDone ==
    [][/\ \A result \in StatusResults :
             app_L270(result)
                 => IF result = "200" /\ status(metadata, workers_seen).done
                    THEN launcher'.pc = "L273"
                    ELSE /\ launcher'.pc = "L271"
                         /\ launcher'.teardown = launcher.teardown
                         /\ launcher'.instances = launcher.instances
       /\ (launcher.pc # "L273" /\ launcher'.pc = "L273")
             => app_L270("200") /\ status(metadata, workers_seen).done
       /\ ("_cleanup_instances" \notin launcher.teardown
              /\ "_cleanup_instances" \in launcher'.teardown)
             => launcher.pc = "L273"]_vars

\* The launcher is about to tear down after polls of every kind, the job ended.
C27_Witness ==
    /\ launcher.pc = "L273"
    /\ launcher.polled = StatusResults
    /\ launcher.teardown = {}
    /\ \E k \in videos : metadata[k].status \in Terminal

\* C28: a launcher that registered its exit hook and has ended has run a
\* teardown: _cleanup_instances when the hook was unregistered, the exit hook
\* otherwise; and the hook is unregistered only at line 276, after
\* _cleanup_instances returned with the run's instances removed.
C28_TeardownOnEveryExit ==
    /\ []((launcher.pc = "exited" /\ launcher.registered)
            => IF launcher.hooks = {}
               THEN "_cleanup_instances" \in launcher.teardown
               ELSE "exit_handler" \in launcher.teardown)
    /\ [][(launcher.hooks # {} /\ launcher'.hooks = {})
            => /\ launcher.pc = "L276"
               /\ "_cleanup_instances" \in launcher.teardown
               /\ launcher.instances = {}]_vars

\* The launcher was interrupted while polling and its exit hook ran.
C28_Witness ==
    /\ launcher.pc = "exited"
    /\ launcher.registered
    /\ launcher.polled # {}
    /\ launcher.teardown = {"exit_handler"}

\* C29: a connection error on a poll leaves the worker in its loop with its
\* worker_status as it was, sleeping at line 184; from there it polls again; the
\* loop ends only on a finished reply or on a reply that is not JSON.
C29_PollingTolerant ==
    [][\A w \in Workers :
          /\ worker_L156(w, "ConnectionError")
                => /\ worker'[w].pc = "L184"
                   /\ worker'[w].worker_status = worker[w].worker_status
          /\ (worker[w].pc = "L184" /\ worker'[w] # worker[w]) => worker'[w].pc = "L156"
          /\ (worker[w].pc \notin Ended /\ worker'[w].pc \in Ended)
                => \/ worker_L156(w, "JSONDecodeError")
                   \/ /\ worker_L156(w, "reply")
                      /\ "finished" \in
                            DOMAIN next_video_GET_reply(metadata, worker[w].worker_status)]_vars

\* A healthy worker sleeps after a connection error while a job is downloading.
C29_Witness ==
    \E w \in Workers :
        /\ worker[w].pc = "L184" /\ worker[w].worker_status = "ok"
        /\ AnyDownloading(metadata)

\* C30: the server starts with the job ids 0..N-1 of its N payloads, every job
\* waiting with retries 0 and no error, worker or timestamps; the set of job ids
\* and the total of /status never change afterwards.
C30_InitialLedger ==
    /\ \E N \in 0..MaxJobs :
          /\ videos = 0..(N - 1)
          /\ DOMAIN metadata = 0..(N - 1)
          /\ \A k \in 0..(N - 1) :
                /\ video_data[k] = Payload(k)
                /\ metadata[k].status = "waiting" /\ metadata[k].retries = 0
                /\ metadata[k].error = None /\ metadata[k].worker_id = None
                /\ metadata[k].start_time = None /\ metadata[k].end_time = None
          /\ status(metadata, workers_seen).total = N
    /\ [][/\ DOMAIN video_data' = DOMAIN video_data
          /\ DOMAIN metadata' = DOMAIN metadata
          /\ status(metadata', workers_seen').total = status(metadata, workers_seen).total]_vars

\* Every job of a full list has ended, and the ledger holds the same job ids.
C30_Witness ==
    /\ DOMAIN metadata = 0..(MaxJobs - 1)
    /\ \A k \in DOMAIN metadata : metadata[k].status \in Terminal /\ metadata[k].retries >= 1

\* The ledger md after its first waiting job, if any, was handed out at time t:
\* a function of the ledger and the clock, not of the registry.
FirstWaitingAssigned(md, t) ==
    [k \in DOMAIN md |->
        IF md[k].status = "waiting" /\ \A i \in DOMAIN md : i < k => md[i].status # "waiting"
        THEN [md[k] EXCEPT !.status = "downloading", !.error = None,
                           !.start_time = Some(t), !.end_time = None]
        ELSE md[k]]

\* C23: what a healthy poll does to the ledger, and with it the job it is
\* answered with, is decided by the ledger alone, whatever the registry holds;
\* a worker that was unhealthy before is handed the waiting job like any other.
C23_RegistryObservational ==
    [][\A w \in Workers, m \in WorkerMessages :
          next_video_GET(w, "ok", m)
          => /\ metadata' = FirstWaitingAssigned(metadata, now)
             /\ (w \in unhealthy /\ \E k \in videos : metadata[k].status = "waiting")
                   => \E k \in videos :
                         /\ metadata[k].status = "waiting"
                         /\ metadata'[k].status = "downloading"
                         /\ next_video_GET_reply(metadata, "ok") = JobReply(k)]_vars

\* The only worker that ever polled was unhealthy once; it polled ok just now
\* and was handed the job.
C23_Witness ==
    \E w \in unhealthy :
        /\ DOMAIN workers_seen = {w}
        /\ workers_seen[w].status = "ok" /\ workers_seen[w].last_seen = now
        /\ \E k \in videos :
              metadata[k].status = "downloading" /\ metadata[k].start_time = Some(now)

\* C31: an accepted report naming job j leaves every other job's record as it
\* was, and so does a healthy poll answered with job j.
C31_PerJobFrame ==
    [][/\ \A data \in Bodies :
             (metadata' # metadata /\ Accepted(metadata, data) /\ next_video_POST(data))
                 => \A k \in videos \ {data[1].video_id} : metadata'[k] = metadata[k]
       /\ \A w \in Workers, m \in WorkerMessages :
             (metadata' # metadata /\ AnyWaiting(metadata) /\ next_video_GET(w, "ok", m))
                 => \A k \in videos \ {next_video_GET_reply(metadata, "ok")._id} :
                       metadata'[k] = metadata[k]]_vars

\* One job was reported finished just now while the other, retried once with an
\* error on record, waits.
C31_Witness ==
    \E j, k \in videos :
        /\ j # k
        /\ metadata[j].status = "finished" /\ metadata[j].end_time = Some(now)
        /\ metadata[k].status = "waiting" /\ metadata[k].retries = 1
        /\ metadata[k].error # None

\* C32 (as claimed): no zone ever holds more than --max_workers_per_zone of the
\* workers the launcher created, the server not counted.
C32_ZoneLimit ==
    \A z \in DOMAIN placement.worker_ops :
        Cardinality(WorkersIn(placement.worker_ops, z)) <= placement.max_workers_per_zone

\* C33: when a healthy worker keeps polling and every job handed out gets an
\* outcome report, /status eventually answers done: true.
C33_EventuallyDone == <>(status(metadata, workers_seen).done)

\* All jobs of a full list have ended and none is handed out; one of them failed
\* after its retries were used up, another finished.
C33_Witness ==
    /\ status(metadata, workers_seen).done
    /\ Cardinality(videos) = MaxJobs
    /\ \A k \in videos : handed[k] = {}
    /\ \E j, k \in videos :
          /\ metadata[j].status = "failed" /\ metadata[j].retries = FLAGS.retries
          /\ metadata[k].status = "finished"

\* C34: a job that is downloading, handed out early enough for its deadline to
\* pass before the clock's last value, does not stay downloading for ever,
\* whether or not a report for it ever arrives.
C34_NoJobStranded ==
    \A k \in 0..(MaxJobs - 1) :
        (/\ k \in videos
         /\ metadata[k].status = "downloading"
         /\ metadata[k].start_time[1] + FLAGS.timeout < MaxTime)
            ~> (k \in videos /\ metadata[k].status # "downloading")

\* The only worker that ever polled is back at its poll, healthy, with no job in
\* hand, and the job it was given waits again with the sweeper's error: its
\* report was lost and a pass reclaimed the job.
C34_Witness ==
    \E w \in Workers, k \in videos :
        /\ DOMAIN workers_seen = {w}
        /\ worker[w].pc = "L156" /\ worker[w].worker_status = "ok"
        /\ metadata[k].status = "waiting"
        /\ metadata[k].error = Some(TimeoutMessage)
        /\ metadata[k].end_time = None

\* C35: when the download function raises on a worker's job, nothing is reported
\* to the server and the worker goes back to polling with worker_status error; a
\* worker whose status is error keeps it, is never handed a job, and leaves its
\* loop at the first poll the server answers.
C35_ErrorEndsWorker ==
    [][\A w \in Workers :
          /\ (\E delivered \in BOOLEAN : worker_L175(w, "raised", delivered))
                => /\ UNCHANGED server
                   /\ worker'[w].worker_status = "error"
                   /\ worker'[w].pc = "L156"
          /\ worker[w].worker_status = "error"
                => /\ worker'[w].worker_status = "error"
                   /\ worker'[w].pc # "L175"
          /\ (worker[w].worker_status = "error" /\ worker_L156(w, "reply"))
                => worker'[w].pc = "L172"]_vars

\* A worker of worker.py has left its loop after its download function raised;
\* the job it held is still downloading, unreported.
C35_Witness ==
    /\ program = "worker.py"
    /\ \E w \in Workers :
          /\ worker[w].pc = "L172"
          /\ worker[w].worker_status = "error" /\ worker[w].worker_message = "boom"
          /\ \A k \in videos : metadata[k].status = "downloading"
          /\ videos # {}

\* C36: a sweeper pass leaves the record of every job that is not downloading
\* for more than --timeout as it was, and leaves the worker registry as it was.
C36_SweeperFrame ==
    [][_check_and_retry_downloads
          => /\ \A k \in videos :
                   ~(/\ metadata[k].status = "downloading"
                     /\ metadata[k].start_time # None
                     /\ now - metadata[k].start_time[1] > FLAGS.timeout)
                       => metadata'[k] = metadata[k]
             /\ workers_seen' = workers_seen]_vars

\* A pass reclaimed one job and kept another that was handed out at this very
\* time (its elapsed time equals --timeout).
C36_Witness ==
    \E j, k \in videos :
        /\ metadata[j].status = "waiting" /\ metadata[j].error = Some(TimeoutMessage)
        /\ metadata[k].status = "downloading"
        /\ metadata[k].start_time = Some(now)
        /\ now - metadata[k].start_time[1] = FLAGS.timeout
        /\ workers_seen # <<>>

\* C37: between requests the fields of /status satisfy finished + waiting +
\* downloading = total, failed + skipped <= finished, retrying <= waiting, and
\* done is true exactly when finished = total.
C37_StatusAccounting ==
    LET stat == status(metadata, workers_seen)
    IN  /\ stat.finished + stat.waiting + stat.downloading = stat.total
        /\ stat.failed + stat.skipped <= stat.finished
        /\ stat.retrying <= stat.waiting
        /\ stat.done <=> (stat.finished = stat.total)

\* One job has failed and the other waits for a retry.
C37_Witness ==
    LET stat == status(metadata, workers_seen)
    IN  stat.failed = 1 /\ stat.retrying = 1 /\ stat.total = MaxJobs
====
